---- MODULE Spec2Model ----
(***************************************************************************)
(* State machine of the AnimeOpeningGenerator component                    *)
(* (src/frontend/src/App.js, lines 258-520): the React state, the event    *)
(* handlers and the asynchronous continuations of generateOpening and      *)
(* checkGenerationProgress.                                                *)
(*                                                                         *)
(* Every call of generateOpening is a "run": an activation of the async    *)
(* function which keeps, for its whole life, the values of the render in   *)
(* which it was created (its closure).  A run's record holds those values  *)
(* and the place where the run is suspended (an await).                    *)
(*                                                                         *)
(* A run that returns leaves runs: its locals no longer exist.             *)
(*                                                                         *)
(* generateOpening is the handler of the button of lines 630-633, which    *)
(* is disabled while isGenerating is true or images is empty.  The handler *)
(* itself only tests images.length (line 417); the model lets it be called *)
(* in any render, so that both of its branches and the polling loop of     *)
(* lines 456-460 are exercised.  A call made through the enabled button is *)
(* a call whose closure has isGenerating = FALSE and a non-empty images.   *)
(*                                                                         *)
(* Optional JavaScript values are tuples: <<>> is null/undefined/absent,   *)
(* <<v>> is the value v.                                                   *)
(*                                                                         *)
(* Six specifications share the variables and the actions:                *)
(*   Spec         generation with overlapping activations and polling;     *)
(*   SpecSubmit   what a submission carries: session, theme, generation    *)
(*                with one activation at a time;                           *)
(*   SpecSession  login, logout, reload of the page, theme and saveVideo;  *)
(*   SpecStaging  the staging buffer with several pending selections and   *)
(*                reads that fail;                                         *)
(*   SpecPolling  the polling with status responses of any progress;       *)
(*   SpecSave     what saveVideo sends about the job.                      *)
(* The handlers of one group neither read nor write what another group     *)
(* changes, except where a specification puts them together.               *)
(***************************************************************************)
EXTENDS Integers, Sequences, FiniteSets, TLC

\* ------------------------------------------------------------- bounds
\* Calls of generateOpening in one behaviour.
MaxRuns == 2
\* Files selected in one behaviour, over all calls of handleImageUpload.
MaxFiles == 1
\* Calls of saveVideo that send a request, in one behaviour.
MaxSaves == 1
\* Times the page is loaded in one behaviour, the first one included.
MaxLoads == 2
\* Files selected in one behaviour of SpecStaging.
MaxStaged == 3

\* ------------------------------------------------------------- values
Null == <<>>

API_URL == "http://localhost:8000"

SampleVideo == <<"/sample-anime-opening.mp4">>

\* The names of the files a user selects.  No handler reads a name (line 363
\* only stores it for display), and two selections are told apart by the File
\* object, so one name is enough.
FileNames == {"A"}

\* The task_id values the remote service hands out.
JobIds == {"job-1", "job-2"}

\* The values a status response may report as data.progress (absent included).
ProgressValues == {Null, <<30>>, <<40>>}

\* The bodies of a successful (response.ok) status response.
StatusData ==
    [status    : {"in_progress", "completed", "failed"},
     progress  : ProgressValues,
     video_url : {Null, <<"/r/job-1.mp4">>},
     message   : {<<"out of memory">>}]

\* Values of data.progress outside 0 .. 100.
OutOfRange == {<<-5>>, <<120>>}

\* The bodies of a successful status response, those with a progress outside
\* 0 .. 100 included.
StatusDataAny ==
    [status    : {"in_progress", "completed", "failed"},
     progress  : ProgressValues \cup OutOfRange,
     video_url : {Null, <<"/r/job-1.mp4">>},
     message   : {<<"out of memory">>}]

\* Mutant of Themes: the catalog has a sixth theme.
Themes_More == {"action", "romance", "fantasy", "scifi", "comedy", "horror"}

\* The ids of the themes array, lines 269-306.
Themes == {"action", "romance", "fantasy", "scifi", "comedy"}

\* The values handleLogin's mockToken takes (line 312).
Tokens == {"hackathon-demo-token-k3", "hackathon-demo-token-z8"}

\* The response.status values of a response that is not ok.
NotOk == {"500"}

\* new Error(`API error: ${response.status}`), lines 445, 384 and 506.
ApiError(status) == <<"API error: ", status>>

\* What a catch block can catch: the rejection of fetch (no response at all)
\* or the error thrown for a response that is not ok.
Errors == {<<"TypeError: Failed to fetch">>} \cup {ApiError(st) : st \in NotOk}

VARIABLES
    images,              \* useState([]) line 259: the staged assets, by file
    uploads,             \* calls of handleImageUpload whose Promise.all is pending
    selected,            \* number of files selected so far
    isGenerating,        \* useState(false) line 260
    generatedVideo,      \* useState(null) line 261
    generationProgress,  \* useState(0) line 265
    taskId,              \* useState(null) line 267
    alerted,             \* the text alert() showed in the step just taken
    progressBy,          \* the call whose activation last set generationProgress
    calls,               \* number of calls of generateOpening that passed line 420
    runs,                \* the live activations of generateOpening, by call number
    videoTheme,          \* useState('action') line 262
    isAuthenticated,     \* useState(false) line 263
    userName,            \* useState('') line 264
    authToken,           \* useState('') line 266
    storage,             \* localStorage's item 'auth_token'
    saves,               \* the live activations of saveVideo, by call number
    saved,               \* number of calls of saveVideo that passed line 484
    loads                \* number of times the page was loaded

\* The session holder and what persists it.
session == <<isAuthenticated, userName, authToken, storage>>

\* The staging buffer and the generation state.
staging == <<images, uploads, selected>>

generation == <<isGenerating, generatedVideo, generationProgress, taskId,
                progressBy, calls, runs>>

vars == <<images, uploads, selected, isGenerating, generatedVideo,
          generationProgress, taskId, alerted, progressBy, calls, runs,
          videoTheme, session, saves, saved, loads>>

Init ==
    /\ images = <<>>
    /\ uploads = <<>>
    /\ selected = 0
    /\ isGenerating = FALSE
    /\ generatedVideo = Null
    /\ generationProgress = 0
    /\ taskId = Null
    /\ alerted = Null
    /\ progressBy = 0
    /\ calls = 0
    /\ runs = <<>>
    /\ videoTheme = "action"
    /\ isAuthenticated = FALSE
    /\ userName = ""
    /\ authToken = ""
    /\ storage = Null
    /\ saves = <<>>
    /\ saved = 0
    /\ loads = 1

\* ------------------------------------------------------------- staging buffer
\* The sequences of 1..n file names.
FileLists(n) == UNION {[1 .. k -> FileNames] : k \in 1 .. n}

\* The File objects of a selection of the names names, made when n files had
\* been selected before: a file is its name and the ordinal of its selection,
\* which tells apart two selections of the same name (line 361 keeps the File
\* object, line 363 its name).
Files(names, n) == [j \in DOMAIN names |-> [name |-> names[j], nth |-> n + j]]

\* handleImageUpload, lines 353-367: one promise per file, none settled yet.
\* loaded are the files whose reader.onload has run, failed those whose read
\* ended in an error.
handleImageUpload(files) ==
    /\ selected' = selected + Len(files)
    /\ uploads' = Append(uploads, [files  |-> Files(files, selected),
                                   loaded |-> {},
                                   failed |-> {}])
    /\ alerted' = Null
    /\ UNCHANGED <<videoTheme, session, saves, saved, loads>>
    /\ UNCHANGED <<images, isGenerating, generatedVideo, generationProgress, progressBy,
                   taskId, calls, runs>>

\* s without its element at position k.
RemoveAt(s, k) == [j \in 1 .. Len(s) - 1 |-> IF j < k THEN s[j] ELSE s[j + 1]]

\* reader.onload of file k of pending call u (lines 360-364); when it is the
\* last one of its call, Promise.all resolves and the call's images are
\* appended in the order of its files (lines 369-371).
FileLoaded(u, k) ==
    /\ u \in DOMAIN uploads
    /\ k \in DOMAIN uploads[u].files
    /\ k \notin uploads[u].loaded \cup uploads[u].failed
    /\ LET loaded == uploads[u].loaded \cup {k}
       IN  IF loaded = DOMAIN uploads[u].files
           THEN /\ images' = images \o uploads[u].files
                /\ uploads' = RemoveAt(uploads, u)
           ELSE /\ images' = images
                /\ uploads' = [uploads EXCEPT ![u].loaded = loaded]
    /\ alerted' = Null
    /\ UNCHANGED <<videoTheme, session, saves, saved, loads>>
    /\ UNCHANGED <<selected, isGenerating, generatedVideo, generationProgress, progressBy,
                   taskId, calls, runs>>

\* The read of file k of pending call u ends in an error.  The reader has no
\* onerror handler and the promise of line 358 has no reject path (lines
\* 358-366): the promise stays pending, and with it the Promise.all of line
\* 369.
FileFailed(u, k) ==
    /\ u \in DOMAIN uploads
    /\ k \in DOMAIN uploads[u].files
    /\ k \notin uploads[u].loaded \cup uploads[u].failed
    /\ uploads' = [uploads EXCEPT ![u].failed = @ \cup {k}]
    /\ alerted' = Null
    /\ UNCHANGED <<images, selected, generation, videoTheme, session, saves,
                   saved, loads>>

\* Mutant of Filtered: the first image is removed, whatever the index.
Filtered_Front(imgs, index) ==
    IF index + 1 \in DOMAIN imgs THEN RemoveAt(imgs, 1) ELSE imgs

\* images.filter((_, i) => i !== index), line 376; index is 0-based.
Filtered(imgs, index) ==
    IF index + 1 \in DOMAIN imgs THEN RemoveAt(imgs, index + 1) ELSE imgs

\* removeImage, lines 375-377.
removeImage(index) ==
    /\ images' = Filtered(images, index)
    /\ alerted' = Null
    /\ UNCHANGED <<videoTheme, session, saves, saved, loads>>
    /\ UNCHANGED <<uploads, selected, isGenerating, generatedVideo,
                   generationProgress, progressBy, taskId, calls, runs>>

\* ------------------------------------------------------------- generation
\* Mutant of ImagesEmpty: the check of line 417 is missing.
ImagesEmpty_Never(imgs) == FALSE

\* images.length === 0, line 417.
ImagesEmpty(imgs) == Len(imgs) = 0

\* Mutant of Bearer: the token is sent bare.
Bearer_Bare(token) == <<token>>

\* `Bearer ${authToken}`, lines 435 and 493.
Bearer(token) == <<"Bearer ", token>>

\* The headers object of lines 433-436: Authorization is set when authToken is
\* truthy and absent otherwise.
Headers(token) ==
    [Authorization |-> IF token # "" THEN Bearer(token) ELSE Null]

\* The request of lines 438-442: its address, its headers and the theme field
\* of its body (line 430).
Submission ==
    [url     |-> <<API_URL, "/api/generate-opening">>,
     headers |-> Headers(authToken),
     body    |-> [theme |-> videoTheme]]

\* A fresh activation of generateOpening.  Its isGenerating is the constant of
\* the render in which the handler was created (line 260): the setIsGenerating
\* calls made later never change what the activation reads at line 457.
\* request is the submission while it is in flight, task is data.task_id
\* (line 451) and i the counter of line 464.
NewRun ==
    [pc           |-> "submit",
     isGenerating |-> isGenerating,
     request      |-> <<Submission>>,
     task         |-> Null,
     i            |-> 0]

\* Mutant of StartProgress: generateOpening starts from 1.
StartProgress_One == 0 + 1

\* The progress generateOpening starts from, line 423.
StartProgress == 0

\* rs with the new activation r.
Started(rs, r, run) == [x \in DOMAIN rs \cup {r} |-> IF x = r THEN run ELSE rs[x]]

\* rs after activation r returned: its locals are gone.
Ended(rs, r) == [x \in DOMAIN rs \ {r} |-> rs[x]]

\* rs after activation r went on to pc ("done": it returned).
Moved(rs, r, pc) ==
    IF pc = "done" THEN Ended(rs, r) ELSE [rs EXCEPT ![r].pc = pc]

\* Mutant of Disabled: the button is disabled only while images is empty.
Disabled_EmptyOnly(generating, imgs) == Len(imgs) = 0

\* The disabled attribute of the button that calls generateOpening,
\* isGenerating || images.length === 0, line 632.
Disabled(generating, imgs) == generating \/ Len(imgs) = 0

\* generateOpening up to its first await, lines 416-442.  The handler is
\* invoked in the current render, through the button of lines 630-633 or
\* directly.
generateOpening ==
    IF ImagesEmpty(images)
    THEN /\ alerted' = <<"Please upload at least one image!">>
         /\ UNCHANGED <<images, uploads, selected, isGenerating, generatedVideo,
                        generationProgress, progressBy, taskId, calls, runs,
                        videoTheme, session, saves, saved, loads>>
    ELSE /\ calls < MaxRuns
         /\ isGenerating' = TRUE
         /\ generationProgress' = StartProgress
         /\ progressBy' = calls + 1
         /\ calls' = calls + 1
         /\ runs' = Started(runs, calls + 1, NewRun)
         /\ alerted' = Null
         /\ UNCHANGED <<images, uploads, selected, generatedVideo, taskId,
                        videoTheme, session, saves, saved, loads>>

\* Where the activation goes when it evaluates the loop condition
\* !completed && isGenerating of line 457.
LoopNext(run, completed) ==
    IF ~completed /\ run.isGenerating THEN "sleep" ELSE "done"

\* The alert of line 475.
GenerateFailedAlert(error) == <<"Failed to generate anime opening. Please try again.">>

\* The submission fails with error: fetch rejects or response.ok is false
\* (lines 444-446); the catch block of lines 472-476 runs.
SubmitFailed(r, error) ==
    /\ r \in DOMAIN runs
    /\ runs[r].pc = "submit"
    /\ isGenerating' = FALSE
    /\ alerted' = GenerateFailedAlert(error)
    /\ UNCHANGED <<videoTheme, session, saves, saved, loads>>
    /\ runs' = Ended(runs, r)
    /\ UNCHANGED <<images, uploads, selected, generatedVideo,
                   generationProgress, progressBy, taskId, calls>>

\* The submission succeeds and carries task_id t: lines 451-457 (completed is
\* false when the loop condition is first evaluated).
SubmitAccepted(r, t) ==
    /\ r \in DOMAIN runs
    /\ runs[r].pc = "submit"
    /\ taskId' = <<t>>
    /\ runs' = Moved([runs EXCEPT ![r].request = Null, ![r].task = <<t>>],
                     r, LoopNext(runs[r], FALSE))
    /\ alerted' = Null
    /\ UNCHANGED <<videoTheme, session, saves, saved, loads>>
    /\ UNCHANGED <<images, uploads, selected, isGenerating, generatedVideo,
                   generationProgress, progressBy, calls>>

\* The first value, the step and the last value of the loop of line 464.
RampFirst == 0

\* Mutant of RampStep: the loop counts in twenties.
RampStep_Double == 2 * 10

RampStep == 10

RampLast == 100

\* The submission succeeds without a task_id: lines 461-466, first iteration.
SubmitFallback(r) ==
    /\ r \in DOMAIN runs
    /\ runs[r].pc = "submit"
    /\ generationProgress' = RampFirst
    /\ progressBy' = r
    /\ runs' = [runs EXCEPT ![r].pc = "ramp", ![r].request = Null,
                            ![r].i = RampFirst]
    /\ alerted' = Null
    /\ UNCHANGED <<videoTheme, session, saves, saved, loads>>
    /\ UNCHANGED <<images, uploads, selected, isGenerating, generatedVideo,
                   taskId, calls>>

\* The 500 ms timer of line 466 fires: i += 10, then the next iteration
\* (lines 464-466) or the end of the fallback (lines 469-470).
RampTimer(r) ==
    /\ r \in DOMAIN runs
    /\ runs[r].pc = "ramp"
    /\ LET i == runs[r].i + RampStep
       IN  IF i <= RampLast
           THEN /\ generationProgress' = i
                /\ progressBy' = r
                /\ runs' = [runs EXCEPT ![r].i = i]
                /\ UNCHANGED <<isGenerating, generatedVideo>>
           ELSE /\ generatedVideo' = SampleVideo
                /\ isGenerating' = FALSE
                /\ runs' = Ended(runs, r)
                /\ UNCHANGED <<generationProgress, progressBy>>
    /\ alerted' = Null
    /\ UNCHANGED <<videoTheme, session, saves, saved, loads>>
    /\ UNCHANGED <<images, uploads, selected, taskId, calls>>

\* The 2 s timer of line 458 fires and the status query of line 382 is sent.
PollTimer(r) ==
    /\ r \in DOMAIN runs
    /\ runs[r].pc = "sleep"
    /\ runs' = [runs EXCEPT ![r].pc = "status"]
    /\ alerted' = Null
    /\ UNCHANGED <<videoTheme, session, saves, saved, loads>>
    /\ UNCHANGED <<images, uploads, selected, isGenerating, generatedVideo,
                   generationProgress, progressBy, taskId, calls>>

\* data.progress || 0, line 390.
OrZero(p) == IF p = Null \/ p[1] = 0 THEN 0 ELSE p[1]

\* Mutant of Resolve: the base address is not prepended.
Resolve_NoBase(url) == url

\* `${API_URL}${data.result.video_url}`, line 398.
Resolve(url) == <<API_URL>> \o url

\* Mutant of FailedAlert: the generic text of line 475 instead of the reason.
FailedAlert_Generic(data) ==
    <<"Failed to generate anime opening. Please try again.">>

\* `Generation failed: ${data.message}`, line 404.
FailedAlert(data) == <<"Generation failed: ">> \o data.message

\* Mutant of ReturnsTrue: the failed branch returns false.
ReturnsTrue_CompletedOnly(data) == data.status = "completed"

\* The value checkGenerationProgress returns for a parsed response,
\* lines 392-408.
ReturnsTrue(data) == data.status = "completed" \/ data.status = "failed"

\* checkGenerationProgress for a response that is ok and parses to data
\* (lines 387-408), then the loop condition of line 457.
StatusReceived(r, data) ==
    /\ r \in DOMAIN runs
    /\ runs[r].pc = "status"
    /\ generationProgress' = OrZero(data.progress)
    /\ progressBy' = r
    /\ isGenerating' = IF ReturnsTrue(data) THEN FALSE ELSE isGenerating
    /\ generatedVideo' =
           IF data.status = "completed" /\ data.video_url # Null
           THEN Resolve(data.video_url)
           ELSE generatedVideo
    /\ alerted' = IF data.status = "failed" THEN FailedAlert(data) ELSE Null
    /\ UNCHANGED <<videoTheme, session, saves, saved, loads>>
    /\ runs' = Moved(runs, r, LoopNext(runs[r], ReturnsTrue(data)))
    /\ UNCHANGED <<images, uploads, selected, taskId, calls>>

\* Mutant of CaughtResult: the catch block reports the job as finished.
CaughtResult_True == TRUE

\* The value checkGenerationProgress returns from its catch block, line 411.
CaughtResult == FALSE

\* The status query fails with error: fetch rejects or response.ok is false
\* (lines 383-385); the catch of lines 409-412 returns false.
StatusFailed(r, error) ==
    /\ r \in DOMAIN runs
    /\ runs[r].pc = "status"
    /\ runs' = Moved(runs, r, LoopNext(runs[r], CaughtResult))
    /\ alerted' = Null
    /\ UNCHANGED <<videoTheme, session, saves, saved, loads>>
    /\ UNCHANGED <<images, uploads, selected, isGenerating, generatedVideo,
                   generationProgress, progressBy, taskId, calls>>

\* ------------------------------------------------------------- session
\* Mutant of SetItem: nothing is written.
SetItem_Lost(store, value) == store

\* localStorage.setItem('auth_token', value), line 318.
SetItem(store, value) == <<value>>

\* Mutant of RemoveItem: the item stays.
RemoveItem_Kept(store) == store

\* localStorage.removeItem('auth_token'), line 325.
RemoveItem(store) == Null

\* handleLogin, lines 309-319; token is the mockToken of line 312.
handleLogin(token) ==
    /\ authToken' = token
    /\ isAuthenticated' = TRUE
    /\ userName' = "HackathonUser"
    /\ storage' = SetItem(storage, token)
    /\ alerted' = Null
    /\ UNCHANGED <<staging, generation, videoTheme, saves, saved, loads>>

\* Mutant of NoToken: logout leaves a token behind.
NoToken_Guest == "guest"

\* The authToken of no session, lines 266 and 322.
NoToken == ""

\* handleLogout, lines 321-326.
handleLogout ==
    /\ authToken' = NoToken
    /\ isAuthenticated' = FALSE
    /\ userName' = ""
    /\ storage' = RemoveItem(storage)
    /\ alerted' = Null
    /\ UNCHANGED <<staging, generation, videoTheme, saves, saved, loads>>

\* The JavaScript truthiness of an optional string: null, undefined and ''
\* are falsy (lines 331 and 500).
Truthy(v) == v # Null /\ v[1] # ""

\* The JavaScript truthiness of an optional boolean (line 511).
TruthyFlag(v) == v # Null /\ v[1]

\* The page is loaded again: every activation of the old page is gone, the
\* component is mounted with its initial state (lines 259-267) and the effect
\* of lines 329-335 reads localStorage.
Restart ==
    /\ loads < MaxLoads
    /\ loads' = loads + 1
    /\ images' = <<>>
    /\ uploads' = <<>>
    /\ isGenerating' = FALSE
    /\ generatedVideo' = Null
    /\ generationProgress' = 0
    /\ progressBy' = 0
    /\ taskId' = Null
    /\ runs' = <<>>
    /\ saves' = <<>>
    /\ videoTheme' = "action"
    /\ IF Truthy(storage)
       THEN /\ authToken' = storage[1]
            /\ isAuthenticated' = TRUE
            /\ userName' = "HackathonUser"
       ELSE /\ authToken' = ""
            /\ isAuthenticated' = FALSE
            /\ userName' = ""
    /\ alerted' = Null
    /\ UNCHANGED <<selected, calls, saved, storage>>

\* setVideoTheme(theme.id), the onClick of line 616.
setVideoTheme(theme) ==
    /\ videoTheme' = theme
    /\ alerted' = Null
    /\ UNCHANGED <<staging, generation, session, saves, saved, loads>>

\* ------------------------------------------------------------- save
\* videoTheme.charAt(0).toUpperCase() + videoTheme.slice(1), line 501.
Capitalized ==
    [action |-> "Action", romance |-> "Romance", fantasy |-> "Fantasy",
     scifi |-> "Scifi", comedy |-> "Comedy"]

\* taskId || 'latest', line 500.
OrLatest(id) == IF Truthy(id) THEN id[1] ELSE "latest"

\* The request of lines 496-503.
SaveRequest ==
    [url     |-> <<API_URL, "/api/save-opening">>,
     headers |-> [Content_Type  |-> "application/json",
                  Authorization |-> Headers(authToken).Authorization],
     body    |-> [opening_id |-> OrLatest(taskId),
                  title      |-> <<"My ", Capitalized[videoTheme], " Anime Opening">>]]

\* The bodies of a successful (response.ok) save response.
SaveData == [success : {Null, <<TRUE>>, <<FALSE>>}]

\* Mutant of NoSession: the check of line 481 is missing.
NoSession_Never(authenticated) == FALSE

\* !isAuthenticated, line 481.
NoSession(authenticated) == ~authenticated

\* saveVideo up to its await, lines 480-503.
saveVideo ==
    IF NoSession(isAuthenticated)
    THEN /\ alerted' = <<"Please log in to save your anime opening!">>
         /\ UNCHANGED <<staging, generation, videoTheme, session, saves, saved, loads>>
    ELSE /\ saved < MaxSaves
         /\ saved' = saved + 1
         /\ saves' = Started(saves, saved + 1, [request |-> SaveRequest])
         /\ alerted' = Null
         /\ UNCHANGED <<staging, generation, videoTheme, session, loads>>

\* Mutant of SaveAlert: the success flag of the body is not looked at.
SaveAlert_Always(success) == <<"Your anime opening has been saved!">>

\* The alert of lines 511-515.
SaveAlert(success) ==
    IF TruthyFlag(success)
    THEN <<"Your anime opening has been saved!">>
    ELSE <<"Failed to save your anime opening. Please try again.">>

\* The save response is ok and parses to data: lines 509-515.
SaveAnswered(s, data) ==
    /\ s \in DOMAIN saves
    /\ alerted' = SaveAlert(data.success)
    /\ saves' = Ended(saves, s)
    /\ UNCHANGED <<staging, generation, videoTheme, session, saved, loads>>

\* The save fails with error: fetch rejects or response.ok is false
\* (lines 505-507); the catch block of lines 516-519 runs.
SaveFailed(s, error) ==
    /\ s \in DOMAIN saves
    /\ alerted' = <<"Failed to save your anime opening. Please try again.">>
    /\ saves' = Ended(saves, s)
    /\ UNCHANGED <<staging, generation, videoTheme, session, saved, loads>>

\* ------------------------------------------------------------- specification
\* Indices a click on a thumbnail's remove button can pass, and one past them.
RemoveIndices == 0 .. MaxFiles

Next ==
    \/ \E files \in FileLists(MaxFiles) :
           selected + Len(files) <= MaxFiles /\ handleImageUpload(files)
    \/ \E u \in DOMAIN uploads : \E k \in DOMAIN uploads[u].files : FileLoaded(u, k)
    \/ \E index \in RemoveIndices : removeImage(index)
    \/ generateOpening
    \/ \E r \in DOMAIN runs : \E error \in Errors : SubmitFailed(r, error)
    \/ \E r \in DOMAIN runs : \E t \in JobIds : SubmitAccepted(r, t)
    \/ \E r \in DOMAIN runs : SubmitFallback(r)
    \/ \E r \in DOMAIN runs : RampTimer(r)
    \/ \E r \in DOMAIN runs : PollTimer(r)
    \/ \E r \in DOMAIN runs : \E data \in StatusData : StatusReceived(r, data)
    \/ \E r \in DOMAIN runs : \E error \in Errors : StatusFailed(r, error)

Spec == Init /\ [][Next]_vars

\* The session holder alone: login, logout, reload of the page, the theme
\* selection and saveVideo.  None of these handlers reads or writes the
\* staging buffer or the generation state, except that saveVideo reads taskId.
NextSession ==
    \/ \E token \in Tokens : handleLogin(token)
    \/ handleLogout
    \/ Restart
    \/ \E theme \in Themes : setVideoTheme(theme)
    \/ saveVideo
    \/ \E s \in DOMAIN saves : \E data \in SaveData : SaveAnswered(s, data)
    \/ \E s \in DOMAIN saves : \E error \in Errors : SaveFailed(s, error)

SpecSession == Init /\ [][NextSession]_vars

\* What a submission carries: the session, the theme selection, the staging
\* buffer and generateOpening called through its button, which is disabled
\* while isGenerating is true or images is empty (line 632), so every
\* activation has isGenerating = FALSE in its closure and none of them enters
\* the loop of lines 457-460; calls made otherwise, the overlapping
\* activations and the polling they do are explored by Spec.
NextSubmit ==
    \/ \E token \in Tokens : handleLogin(token)
    \/ handleLogout
    \/ \E theme \in Themes : setVideoTheme(theme)
    \/ \E files \in FileLists(MaxFiles) :
           selected + Len(files) <= MaxFiles /\ handleImageUpload(files)
    \/ \E u \in DOMAIN uploads : \E k \in DOMAIN uploads[u].files : FileLoaded(u, k)
    \/ \E index \in RemoveIndices : removeImage(index)
    \/ ~Disabled(isGenerating, images) /\ generateOpening
    \/ \E r \in DOMAIN runs : \E error \in Errors : SubmitFailed(r, error)
    \/ \E r \in DOMAIN runs : \E t \in JobIds : SubmitAccepted(r, t)
    \/ \E r \in DOMAIN runs : SubmitFallback(r)
    \/ \E r \in DOMAIN runs : RampTimer(r)

SpecSubmit == Init /\ [][NextSubmit]_vars

\* The staging buffer alone, with selections of several files, reads that
\* fail and more than one call of handleImageUpload pending.
NextStaging ==
    \/ \E files \in FileLists(MaxStaged) :
           selected + Len(files) <= MaxStaged /\ handleImageUpload(files)
    \/ \E u \in DOMAIN uploads : \E k \in DOMAIN uploads[u].files : FileLoaded(u, k)
    \/ \E u \in DOMAIN uploads : \E k \in DOMAIN uploads[u].files : FileFailed(u, k)
    \/ \E index \in 0 .. MaxStaged : removeImage(index)

SpecStaging == Init /\ [][NextStaging]_vars

\* The polling alone, with status responses that report any progress: the
\* runs that get a job id, their timers and their status queries.
NextPolling ==
    \/ \E files \in FileLists(MaxFiles) :
           selected + Len(files) <= MaxFiles /\ handleImageUpload(files)
    \/ \E u \in DOMAIN uploads : \E k \in DOMAIN uploads[u].files : FileLoaded(u, k)
    \/ generateOpening
    \/ \E r \in DOMAIN runs : \E t \in JobIds : SubmitAccepted(r, t)
    \/ \E r \in DOMAIN runs : PollTimer(r)
    \/ \E r \in DOMAIN runs : \E data \in StatusDataAny : StatusReceived(r, data)
    \/ \E r \in DOMAIN runs : \E error \in Errors : StatusFailed(r, error)

SpecPolling == Init /\ [][NextPolling]_vars

\* What saveVideo sends about the job: login, the staging buffer,
\* generateOpening called through its button, and saveVideo.
NextSave ==
    \/ \E token \in Tokens : handleLogin(token)
    \/ \E files \in FileLists(MaxFiles) :
           selected + Len(files) <= MaxFiles /\ handleImageUpload(files)
    \/ \E u \in DOMAIN uploads : \E k \in DOMAIN uploads[u].files : FileLoaded(u, k)
    \/ ~Disabled(isGenerating, images) /\ generateOpening
    \/ \E r \in DOMAIN runs : \E error \in Errors : SubmitFailed(r, error)
    \/ \E r \in DOMAIN runs : \E t \in JobIds : SubmitAccepted(r, t)
    \/ \E r \in DOMAIN runs : SubmitFallback(r)
    \/ \E r \in DOMAIN runs : RampTimer(r)
    \/ saveVideo
    \/ \E s \in DOMAIN saves : \E data \in SaveData : SaveAnswered(s, data)
    \/ \E s \in DOMAIN saves : \E error \in Errors : SaveFailed(s, error)

SpecSave == Init /\ [][NextSave]_vars

\* ------------------------------------------------------------- properties
\* A submission request is in flight exactly for the activations at "submit",
\* a status query for those at "status"; "sleep" and "ramp" are pending timers.
Polling(rs, r) == r \in DOMAIN rs /\ rs[r].pc \in {"sleep", "status"}

\* Activation r takes a step.
StepOf(r) == r \in DOMAIN runs /\ (r \notin DOMAIN runs' \/ runs'[r] # runs[r])

\* The awaited status response of activation r arrives.
Answered(r) == r \in DOMAIN runs /\ runs[r].pc = "status" /\ StepOf(r)

\* C1: every generation run that is started ends with the generating flag
\* false again: once every activation of generateOpening has returned
\* (nothing is awaited, no timer is pending), isGenerating is false.
C1_EndedRunsClearFlag == DOMAIN runs = {} => ~isGenerating

\* C2: a submission answered with a real job id enters Polling (a status
\* query is scheduled for that id), and a polling run leaves Polling only
\* when a status response reports completed or failed.
C2_RealIdIsPolled ==
    [][\A r \in DOMAIN runs :
          /\ (runs[r].pc = "submit" /\ \E t \in JobIds : SubmitAccepted(r, t))
                 => Polling(runs', r)
          /\ (Polling(runs, r) /\ ~Polling(runs', r)) =>
                 \E data \in StatusData :
                     /\ data.status \in {"completed", "failed"}
                     /\ StatusReceived(r, data)]_vars

\* C3: progress never decreases during one job: a status response that
\* reports a progress value, applied while the current progress is that same
\* job's, leaves progress at least as high as it was (a lower reported value
\* is rejected).
C3_ProgressMonotonic ==
    [][\A r \in DOMAIN runs :
          (Answered(r) /\ progressBy = r) =>
              \A data \in StatusData :
                  (data.progress # Null /\ StatusReceived(r, data)) =>
                      generationProgress' >= generationProgress]_vars

\* C4: a status response reporting completed or failed ends the job's
\* activation (no timer is scheduled, no query is in flight for it), and an
\* activation that has ended never takes a step again, so nothing of that job
\* is applied afterwards.
C4_TerminalIsFinal ==
    [][/\ \A r \in DOMAIN runs :
              Answered(r) =>
                  \A data \in StatusData :
                      (data.status \in {"completed", "failed"}
                           /\ StatusReceived(r, data))
                          => r \notin DOMAIN runs'
       /\ \A r \in 1 .. calls : r \notin DOMAIN runs => r \notin DOMAIN runs']_vars

\* C4 witness: a job was completed by a status response and no activation is
\* left.
C4_Witness ==
    /\ DOMAIN runs = {}
    /\ generatedVideo = <<API_URL, "/r/job-1.mp4">>

\* C5: once the generating flag is cleared while a run is polling, that run
\* sends no further status query and a status response arriving for it
\* changes neither progress nor the generating flag nor the result.
C5_CancelStopsPolling ==
    [][\A r \in DOMAIN runs :
          (~isGenerating /\ Polling(runs, r)) =>
              /\ ~PollTimer(r)
              /\ Answered(r) =>
                     \A data \in StatusData :
                         StatusReceived(r, data) =>
                             UNCHANGED <<generationProgress, isGenerating,
                                         generatedVideo>>]_vars

\* C6: a status response for a job that is not the active one (its job id is
\* not the stored taskId) changes neither progress nor the generating flag nor
\* the result.
C6_StaleResponseDiscarded ==
    [][\A r \in DOMAIN runs :
          (Answered(r) /\ runs[r].task # taskId) =>
              \A data \in StatusData :
                  StatusReceived(r, data) =>
                      UNCHANGED <<generationProgress, isGenerating,
                                  generatedVideo>>]_vars

\* C7: generateOpening with an empty staging buffer starts no activation, so
\* no request is sent, and leaves the generating flag, progress, job id and
\* result as they were; the user is told to upload an image.
C7_EmptyRejected ==
    [][(Len(images) = 0 /\ generateOpening) =>
          /\ UNCHANGED <<runs, calls, isGenerating, generationProgress, taskId,
                         generatedVideo>>
          /\ alerted' = <<"Please upload at least one image!">>]_vars

\* C7 witness: the rejection happened.
C7_Witness ==
    /\ Len(images) = 0
    /\ alerted = <<"Please upload at least one image!">>

\* C8: a submission answered without a job id runs the simulated progression:
\* progress is set to 0, then to 10, 20, ..., 100, one value per timer; after
\* 100 the placeholder result is published and the generating flag cleared;
\* the run never has a job id and never sends or schedules a status query.
C8_FallbackRamp ==
    [][\A r \in DOMAIN runs :
          /\ (runs[r].pc = "submit" /\ SubmitFallback(r)) =>
                 /\ generationProgress' = 0
                 /\ runs'[r].pc = "ramp" /\ runs'[r].i = 0
          /\ runs[r].pc = "ramp" =>
                 /\ runs[r].task = Null
                 /\ runs[r].i \in {10 * k : k \in 0 .. 10}
          /\ (runs[r].pc = "ramp" /\ StepOf(r)) =>
                 IF runs[r].i < 100
                 THEN /\ r \in DOMAIN runs'
                      /\ runs'[r].pc = "ramp"
                      /\ runs'[r].i = runs[r].i + 10
                      /\ generationProgress' = runs[r].i + 10
                      /\ UNCHANGED <<isGenerating, generatedVideo>>
                 ELSE /\ r \notin DOMAIN runs'
                      /\ generatedVideo' = <<"/sample-anime-opening.mp4">>
                      /\ isGenerating' = FALSE]_vars

\* C8 witness: a fallback run went through its whole ramp and published the
\* placeholder.
C8_Witness ==
    /\ DOMAIN runs = {}
    /\ calls = 1
    /\ generatedVideo = <<"/sample-anime-opening.mp4">>
    /\ generationProgress = 100
    /\ ~isGenerating

C10_FailedSurfacesReason ==
    [][\A r \in DOMAIN runs : Answered(r) => \A data \in StatusData :
          (data.status = "failed" /\ StatusReceived(r, data)) =>
              /\ isGenerating' = FALSE
              /\ alerted' = <<"Generation failed: ">> \o data.message
              /\ generatedVideo' = generatedVideo
              /\ r \notin DOMAIN runs']_vars

\* C10 witness: a failure reason was shown.
C10_Witness ==
    /\ alerted = <<"Generation failed: ", "out of memory">>
    /\ ~isGenerating

\* C11: a status query that fails (fetch rejects or the response is not ok)
\* while its run is polling leaves progress, the generating flag, the result
\* and the job id as they were, tells the user nothing, and puts the run back
\* to waiting for its next 2 s timer with the same job id; nothing counts the
\* failures, so this holds after any number of them.
C11_StatusErrorRetries ==
    [][\A r \in DOMAIN runs :
          Answered(r) =>
              \A error \in Errors :
                  StatusFailed(r, error) =>
                      /\ UNCHANGED <<generationProgress, isGenerating,
                                     generatedVideo, taskId>>
                      /\ alerted' = Null
                      /\ r \in DOMAIN runs'
                      /\ runs'[r] = [runs[r] EXCEPT !.pc = "sleep"]]_vars

\* C11 witness: the state a failed status query leaves: the run is back at
\* its timer with its job id, the generating flag is still set and the
\* progress an earlier status response reported is still shown.
C11_Witness ==
    /\ isGenerating
    /\ generationProgress = 40
    /\ generatedVideo = Null
    /\ \E r \in DOMAIN runs :
           /\ runs[r].pc = "sleep"
           /\ runs[r].task = taskId
           /\ progressBy = r

\* C12: a submission that fails (fetch rejects or the response is not ok)
\* clears the generating flag, ends the run without a status query and
\* without publishing a result, and the failure shown to the user carries the
\* error detail (the status code of a response that is not ok).
C12_SubmitFailureCarriesDetail ==
    [][\A r \in DOMAIN runs :
          (runs[r].pc = "submit" /\ StepOf(r)) =>
              \A error \in Errors :
                  SubmitFailed(r, error) =>
                      /\ isGenerating' = FALSE
                      /\ r \notin DOMAIN runs'
                      /\ generatedVideo' = generatedVideo
                      /\ alerted' # Null
                      /\ \A st \in NotOk :
                             error = ApiError(st) =>
                                 \E j \in DOMAIN alerted' : alerted'[j] = st]_vars

\* C13: whatever the theme selected and whatever progress the previous run
\* left, generateOpening called with a non-empty staging buffer sets progress
\* to 0 and the generating flag to true in the step that sends the
\* submission: the new activation is at its submission, which carries the
\* selected theme.
C13_GenerateResetsProgress ==
    [][(Len(images) > 0 /\ generateOpening) =>
          /\ generationProgress' = 0
          /\ isGenerating' = TRUE
          /\ calls' = calls + 1
          /\ calls' \in DOMAIN runs'
          /\ runs'[calls'].pc = "submit"
          /\ runs'[calls'].request # Null
          /\ runs'[calls'].request[1].body.theme = videoTheme]_vars

\* C13 witness: a second run has just been started with another theme, after
\* a fallback run that had left progress at 100 and published the placeholder.
C13_Witness ==
    /\ calls = 2
    /\ 2 \in DOMAIN runs
    /\ runs[2].pc = "submit"
    /\ runs[2].request[1].body.theme = "scifi"
    /\ generatedVideo = <<"/sample-anime-opening.mp4">>
    /\ generationProgress = 0
    /\ isGenerating

\* C14: saveVideo called while isAuthenticated is false starts no activation,
\* so no request is sent and no response can ever report success for it, and
\* it tells the user to log in.
C14_SaveNeedsSession ==
    [][(~isAuthenticated /\ saveVideo) =>
          /\ UNCHANGED <<saves, saved>>
          /\ alerted' = <<"Please log in to save your anime opening!">>]_vars

\* C14 witness: a save was rejected for want of a session.
C14_Witness ==
    /\ ~isAuthenticated
    /\ saves = <<>>
    /\ alerted = <<"Please log in to save your anime opening!">>

\* C15: saveVideo called while isAuthenticated is true sends one request; a
\* response that is ok and whose body has success true reports success; a
\* body whose success is false or absent, a response that is not ok and a
\* rejected fetch each report failure; success is reported by nothing else.
C15_SaveReportsOutcome ==
    [][/\ (isAuthenticated /\ saveVideo) =>
              /\ saved' = saved + 1
              /\ DOMAIN saves' = DOMAIN saves \cup {saved'}
              /\ alerted' = Null
       /\ \A s \in DOMAIN saves :
              /\ \A data \in SaveData :
                     SaveAnswered(s, data) =>
                         alerted' =
                             IF data.success = <<TRUE>>
                             THEN <<"Your anime opening has been saved!">>
                             ELSE <<"Failed to save your anime opening. Please try again.">>
              /\ \A error \in Errors :
                     SaveFailed(s, error) =>
                         alerted' = <<"Failed to save your anime opening. Please try again.">>
       /\ alerted' = <<"Your anime opening has been saved!">> =>
              \E s \in DOMAIN saves : SaveAnswered(s, [success |-> <<TRUE>>])]_vars

\* C15 witness: a save made with a session was answered with success.
C15_Witness ==
    /\ saved = 1
    /\ saves = <<>>
    /\ alerted = <<"Your anime opening has been saved!">>

\* C16: the submission generateOpening sends has an Authorization header
\* exactly when authToken is not empty at the call, its value is then
\* "Bearer " followed by that authToken, and with an empty authToken the
\* submission is sent all the same, without the header; a submission in
\* flight keeps what it was sent with.
C16_BearerIffCredential ==
    [][/\ (Len(images) > 0 /\ generateOpening) =>
              /\ calls' \in DOMAIN runs'
              /\ runs'[calls'].pc = "submit"
              /\ runs'[calls'].request # Null
              /\ runs'[calls'].request[1].headers.Authorization =
                     IF authToken = "" THEN Null ELSE <<"Bearer ", authToken>>
       /\ \A r \in DOMAIN runs :
              (r \in DOMAIN runs' /\ runs'[r].pc = "submit") =>
                  runs'[r].request = runs[r].request]_vars

\* C16 witness: a submission sent with a credential is in flight, and the
\* user has logged out since.
C16_Witness ==
    /\ authToken = ""
    /\ \E r \in DOMAIN runs :
           /\ runs[r].pc = "submit"
           /\ runs[r].request[1].headers.Authorization =
                  <<"Bearer ", "hackathon-demo-token-z8">>

\* C17: after handleLogout authToken is empty, isAuthenticated is false and
\* localStorage has no 'auth_token' item, in whatever state it is called.
C17_LogoutClearsBoth ==
    [][handleLogout =>
          /\ authToken' = ""
          /\ isAuthenticated' = FALSE
          /\ storage' = Null]_vars

\* C17 witness: logged out in the second load of the page, while a save sent
\* with the session is still in flight.
C17_Witness ==
    /\ loads = 2
    /\ saves # <<>>
    /\ authToken = ""
    /\ ~isAuthenticated
    /\ storage = Null

\* C18: handleLogin stores its token in localStorage, handleLogout removes
\* it, nothing else writes localStorage, and a reload of the page that finds
\* a token there is authenticated with that token, without handleLogin;
\* a reload that finds none is unauthenticated.
C18_SessionRoundTrip ==
    [][/\ \A token \in Tokens : handleLogin(token) => storage' = <<token>>
       /\ handleLogout => storage' = Null
       /\ storage' # storage => (handleLogout \/ \E token \in Tokens : handleLogin(token))
       /\ Restart =>
              IF storage # Null
              THEN isAuthenticated' /\ authToken' = storage[1]
              ELSE ~isAuthenticated' /\ authToken' = ""]_vars

\* C18 witness: the state a reload leaves when it finds the token of a login:
\* the second load of the page, authenticated with the stored token.
C18_Witness ==
    /\ loads = 2
    /\ isAuthenticated
    /\ authToken = "hackathon-demo-token-z8"
    /\ storage = <<"hackathon-demo-token-z8">>
    /\ alerted = Null

\* C19: the staging buffer lists the files in the order of their selection
\* (call order, and within a call the order of its files), whatever the order
\* in which the reads completed.
C19_StableInsertion ==
    \A i, j \in DOMAIN images : i < j => images[i].nth < images[j].nth

\* C20: a read that fails adds no entry for its file, tells the user, and
\* does not cost the call its other files: once every file of a call has been
\* read or has failed, none of its read files is left out of the buffer.
C20_DecodeFailureIsolated ==
    /\ [][\A u \in DOMAIN uploads : \A k \in DOMAIN uploads[u].files :
              FileFailed(u, k) =>
                  /\ images' = images
                  /\ alerted' # Null]_vars
    /\ [](\A u \in DOMAIN uploads :
              uploads[u].loaded \cup uploads[u].failed = DOMAIN uploads[u].files
                  => uploads[u].loaded = {})

\* C21: removeImage(index) with an index inside the buffer removes the image at
\* that position and nothing else: the images before it stay where they are
\* and the images after it move up by one, in their order; with an index
\* outside the buffer it leaves the buffer as it is; it never alerts.
C21_RemoveExactlyOne ==
    [][\A index \in 0 .. MaxStaged :
          removeImage(index) =>
              /\ alerted' = Null
              /\ IF index < Len(images)
                 THEN /\ Len(images') = Len(images) - 1
                      /\ \A j \in 1 .. index : images'[j] = images[j]
                      /\ \A j \in index + 1 .. Len(images') : images'[j] = images[j + 1]
                 ELSE images' = images]_vars

\* C21 witness: of three staged files the middle one was removed.
C21_Witness ==
    /\ selected = 3
    /\ uploads = <<>>
    /\ Len(images) = 2
    /\ images[1].nth = 1
    /\ images[2].nth = 3

\* C22: the progress shown is always an integer from 0 to 100: a status
\* response that reports a value outside that range is clamped before it is
\* applied.
C22_ProgressInRange == generationProgress \in 0 .. 100

\* C23: with generateOpening called through its button, at most one
\* activation of generateOpening is alive in any state: no second run is
\* started while one is submitting or ramping.
C23_AtMostOneRun == Cardinality(DOMAIN runs) <= 1

\* C23 witness: a second run is alive after the first one has ended, and the
\* button is disabled.
C23_Witness ==
    /\ calls = 2
    /\ DOMAIN runs = {2}
    /\ Len(images) > 0
    /\ Disabled(isGenerating, images)

\* C24: while a run is alive, what an earlier run left is not exposed: the
\* result is absent until the run publishes its own, and the job id is absent
\* or the id of a run that is alive; so the progress of the new run is never
\* shown next to the result of the old one.
C24_SupersededJobHidden ==
    DOMAIN runs # {} =>
        /\ generatedVideo = Null
        /\ taskId = Null \/ \E r \in DOMAIN runs : runs[r].task = taskId

\* C25: the selected theme is 'action' at first and always one of action,
\* romance, fantasy, scifi, comedy; the theme a submission carries is the one
\* selected when generateOpening was called, and the submission keeps it while
\* it is in flight.
C25_ThemeInCatalog ==
    /\ videoTheme = "action"
    /\ [](videoTheme \in {"action", "romance", "fantasy", "scifi", "comedy"})
    /\ [][/\ (Len(images) > 0 /\ generateOpening) =>
                 /\ calls' \in DOMAIN runs'
                 /\ runs'[calls'].request # Null
                 /\ runs'[calls'].request[1].body.theme = videoTheme
          /\ \A r \in DOMAIN runs :
                 (r \in DOMAIN runs' /\ runs'[r].pc = "submit") =>
                     runs'[r].request[1].body = runs[r].request[1].body]_vars

\* C25 witness: a submission sent with one theme is in flight and another
\* theme has been selected since.
C25_Witness ==
    /\ videoTheme = "romance"
    /\ \E r \in DOMAIN runs :
           /\ runs[r].pc = "submit"
           /\ runs[r].request[1].body.theme = "comedy"

\* C26: a run that ends completed leaves its own result exposed: a status
\* response reporting completed leaves the reference it carries, resolved
\* against API_URL, and the last step of the simulated ramp leaves the
\* placeholder; the result is then never absent and never what an earlier run
\* had left.
C26_CompletedRunOwnsResult ==
    [][\A r \in DOMAIN runs :
          /\ (runs[r].pc = "ramp" /\ StepOf(r) /\ r \notin DOMAIN runs') =>
                 generatedVideo' = <<"/sample-anime-opening.mp4">>
          /\ Answered(r) =>
                 \A data \in StatusData :
                     (data.status = "completed" /\ StatusReceived(r, data)) =>
                         /\ generatedVideo' # Null
                         /\ generatedVideo' # generatedVideo
                                \/ generatedVideo = <<API_URL>> \o data.video_url]_vars

\* C27: the opening_id saveVideo sends names the job whose result is shown.
\* The placeholder is the result of a run that never had a job id, so while
\* the placeholder is shown saveVideo sends no job id of another run: its
\* opening_id is 'latest'.
C27_SaveNamesShownJob ==
    [][(isAuthenticated /\ generatedVideo = <<"/sample-anime-opening.mp4">>
            /\ saveVideo) =>
          /\ saved' \in DOMAIN saves'
          /\ saves'[saved'].request.body.opening_id = "latest"]_vars

\* C28: in every state reached by logins, logouts and reloads of the page,
\* isAuthenticated is true exactly when authToken is not empty, localStorage
\* then holds that same token, and when isAuthenticated is false localStorage
\* holds none.
C28_SessionViewsAgree ==
    /\ isAuthenticated <=> authToken # ""
    /\ isAuthenticated => storage = <<authToken>>
    /\ ~isAuthenticated => storage = Null

\* C28 witness: the second load of the page; a save sent under one token is
\* in flight and the session now holds another token, in memory and in
\* localStorage.
C28_Witness ==
    /\ loads = 2
    /\ isAuthenticated
    /\ userName = "HackathonUser"
    /\ authToken = "hackathon-demo-token-k3"
    /\ storage = <<"hackathon-demo-token-k3">>
    /\ saves # <<>>
    /\ saves[1].request.headers.Authorization = <<"Bearer ", "hackathon-demo-token-z8">>

====
